---- MODULE Spec2Model ----
(***************************************************************************)
(* Job Execution Orchestrator of ai-threat-modeler                         *)
(*   backend/src/routes/threatModeling.ts   (ChdirMutex, POST /, DELETE    *)
(*                                           /jobs/:id, processThreat-     *)
(*                                           ModelingJob)                  *)
(*   backend/src/models/threatModelingJob.ts (ThreatModelingJobModel)      *)
(*                                                                         *)
(* Node.js runs one macrotask (an HTTP handler, a child-process event) to  *)
(* completion, then drains the microtask queue (promise continuations)     *)
(* before the next macrotask.  Every action below is one macrotask or one  *)
(* promise continuation; continuations have priority over macrotasks.      *)
(***************************************************************************)
EXTENDS Integers, Sequences, FiniteSets, TLC

\* ------------------------------------------------------------------ bounds
NJobs   == 4          \* job ids; SpecLeak uses them all
MutexJobs == 3        \* number of start-job requests in SpecMutex, SpecCancel
MaxRows == 1          \* rows of the job table in SpecStore
MainJobs == 2         \* number of start-job requests in Spec
MaxScan == 2          \* number of files the harvester meets in its scan (Spec)
MaxUploads == 1       \* number of start-job requests that upload an archive
MaxRmFail == 1        \* number of file or directory removals that fail (Spec)

Jobs == 1..NJobs
Orig == 0             \* the directory the server process was started in
Dirs == {Orig} \cup Jobs      \* Orig, or the workspace directory of job j
Users == {1, 2}
OwnerOf(j) == IF j = 2 THEN 2 ELSE 1     \* req.userId of start-job request j

NULL == "NULL"

\* ------------------------------------------------- report file names
\* A file name is known by the keyword families its lower-cased name
\* contains (String.includes in the harvester).
FileNames == {"data_flow.md", "dataflow_threat_model.md", "threat_model.md",
              "risk_registry.md", "notes.txt"}

isDataFlow(f)     == f \in {"data_flow.md", "dataflow_threat_model.md"}
isThreatModel(f)  == f \in {"threat_model.md", "dataflow_threat_model.md"}
isRiskRegistry(f) == f \in {"risk_registry.md"}
\* (a collector that takes every regular file for a report)
isAnyFile(f) == f \in FileNames

isReport(f)       == isDataFlow(f) \/ isThreatModel(f) \/ isRiskRegistry(f)

\* the else-if chain that picks the path field a copied file is stored in
CategoryOf(f) ==
  IF isDataFlow(f) THEN "data_flow"
  ELSE IF isThreatModel(f) THEN "threat_model"
  ELSE IF isRiskRegistry(f) THEN "risk_registry"
  ELSE "none"

\* ------------------------------------------------------------- state
VARIABLES
  pc,           \* position of request / execution coroutine j
  rec,          \* threat_modeling_jobs row of job j
  statusLog,    \* history: the status values written to row j, in order
  runningJobs,  \* keys of the runningJobs map
  aborted,      \* jobs whose abortController.signal.aborted is true
  locked,       \* ChdirMutex.locked
  queue,        \* ChdirMutex.queue (jobs whose acquire() is pending)
  micro,        \* resolved acquire() promises whose continuation is queued
  cwd,          \* the process working directory
  cwdCached,    \* process.cwd() has been called since the last chdir
  cwdLost,      \* the directory the process is in has been unlinked
  base,         \* process.cwd() seen at the start of processThreatModelingJob
  originalCwd,  \* local originalCwd of the coroutine of job j
  wd,           \* workspace directory of job j on disk
  rd,           \* report directory of job j on disk
  zip,          \* uploaded archive of request j on disk
  ext,          \* extraction directory of request j on disk
  life,         \* history: what the coroutine of job j did
  tick,         \* history: number of acquire() calls made so far
  child,        \* signals sent to the agent-run child of job j, and the timer
  arg,          \* the input of the function a function specification runs
  res           \* what that function has computed or written so far

vars == <<pc, rec, statusLog, runningJobs, aborted, locked, queue, micro,
          cwd, cwdCached, cwdLost, base, originalCwd, wd, rd, zip, ext, life, tick, child,
          arg, res>>

NoRec == [present |-> FALSE, user_id |-> 0, status |-> NULL,
          completed_at |-> FALSE, report_path |-> NULL,
          data_flow_diagram_path |-> NULL, threat_model_path |-> NULL,
          risk_registry_path |-> NULL, error_message |-> NULL,
          repo_name |-> NULL, metrics |-> FALSE]

\* history of job j: upl the request carried an archive; releases the number
\* of calls of its release callback; waited the ticket of an acquire() that
\* had to queue; entered its acquire() has returned; exit how its child
\* ended; left the workspace then held a file of a keyword family;
\* harvested, found what the harvester did; rmFailed the removals
\* that threw; final the row as the coroutine left it when it terminated;
\* pre what the steps before acquire() met (PreOutcomes)
NoLife == [upl |-> FALSE, releases |-> 0, waited |-> 0, entered |-> FALSE,
           exit |-> "none", left |-> FALSE, harvested |-> FALSE,
           found |-> {}, rmFailed |-> {}, final |-> NoRec, pre |-> "none"]

\* the child process of a job as the abort listener sees it: term SIGTERM
\* was sent; killed childProcess.killed; kill9 SIGKILL was sent; timer the
\* 5000 ms timeout of the listener ("off", "armed", "fired")
NoChild == [term |-> FALSE, killed |-> FALSE, kill9 |-> FALSE, timer |-> "off"]

NoDir == [ex |-> FALSE, files |-> {}]

\* The whole state as one record, so that a handler's statements compose.
Cur == [pc |-> pc, rec |-> rec, statusLog |-> statusLog,
        runningJobs |-> runningJobs, aborted |-> aborted, locked |-> locked,
        queue |-> queue, micro |-> micro, cwd |-> cwd,
        cwdCached |-> cwdCached, cwdLost |-> cwdLost, base |-> base, originalCwd |-> originalCwd,
        wd |-> wd, rd |-> rd, zip |-> zip, ext |-> ext, life |-> life,
        tick |-> tick, child |-> child, arg |-> arg, res |-> res]

Commit(s) ==
  /\ pc' = s.pc /\ rec' = s.rec /\ statusLog' = s.statusLog
  /\ runningJobs' = s.runningJobs /\ aborted' = s.aborted
  /\ locked' = s.locked /\ queue' = s.queue /\ micro' = s.micro
  /\ cwd' = s.cwd /\ cwdCached' = s.cwdCached /\ cwdLost' = s.cwdLost
  /\ base' = s.base
  /\ originalCwd' = s.originalCwd /\ wd' = s.wd /\ rd' = s.rd
  /\ zip' = s.zip /\ ext' = s.ext /\ life' = s.life /\ tick' = s.tick
  /\ child' = s.child /\ arg' = s.arg /\ res' = s.res

\* ------------------------------------------------------ job record store
UNDEF == "UNDEF"      \* an optional parameter that was not passed

\* (a create that inserts the row as already processing)
createRowProcessing(u) ==
  [NoRec EXCEPT !.present = TRUE, !.user_id = u, !.status = "processing"]

\* ThreatModelingJobModel.create: INSERT ... status 'pending'
createRow(u) ==
  [NoRec EXCEPT !.present = TRUE, !.user_id = u, !.status = "pending"]

\* ThreatModelingJobModel.updateStatus: the UPDATE it builds
updateStatusRow(r, status, reportPath, errorMessage, dataFlowDiagramPath, threatModelPath, riskRegistryPath) ==
  [r EXCEPT
     !.status = status,
     !.report_path = IF reportPath = UNDEF THEN @ ELSE reportPath,
     !.data_flow_diagram_path =
        IF dataFlowDiagramPath = UNDEF THEN @ ELSE dataFlowDiagramPath,
     !.threat_model_path =
        IF threatModelPath = UNDEF THEN @ ELSE threatModelPath,
     !.risk_registry_path =
        IF riskRegistryPath = UNDEF THEN @ ELSE riskRegistryPath,
     !.error_message = IF errorMessage = UNDEF THEN @ ELSE errorMessage,
     !.completed_at = IF status \in {"completed", "failed"} THEN TRUE ELSE @]

\* (an updateReports that does not store the risk-registry path)
updateReportsRowNoRisk(r, dataFlowDiagramPath, threatModelPath, riskRegistryPath) ==
  updateStatusRow(r, "completed", threatModelPath, NULL, dataFlowDiagramPath,
                  threatModelPath, UNDEF)

\* ThreatModelingJobModel.updateReports
updateReportsRow(r, dataFlowDiagramPath, threatModelPath, riskRegistryPath) ==
  updateStatusRow(r, "completed", threatModelPath, NULL, dataFlowDiagramPath,
                  threatModelPath, riskRegistryPath)

\* (an updateErrorMessage that loses its message)
updateErrorMessageRowLost(r, errorMessage) ==
  updateStatusRow(r, "failed", NULL, NULL, UNDEF, UNDEF, UNDEF)

\* ThreatModelingJobModel.updateErrorMessage
updateErrorMessageRow(r, errorMessage) ==
  updateStatusRow(r, "failed", NULL, errorMessage, UNDEF, UNDEF, UNDEF)

\* ThreatModelingJobModel.updateMetadata / updateExecutionMetrics
updateMetadataRow(r, repoName) == [r EXCEPT !.repo_name = repoName]
updateExecutionMetricsRow(r) == [r EXCEPT !.metrics = TRUE]

\* ThreatModelingJobModel.findById throws 'Job not found' for a missing row;
\* every update ends with findById, so it throws after an UPDATE of no row.
NotFound(s, j) == ~s.rec[j].present

\* An update of row j by the orchestrator: no row, no change.
SetRow(s, j, r, logged) ==
  IF NotFound(s, j) THEN s
  ELSE [s EXCEPT !.rec[j] = r,
                 !.statusLog[j] = IF logged THEN Append(@, r.status) ELSE @]

\* --------------------------------------------------------------- disk
DirExists(s, d) == d = Orig \/ s.wd[d] # "absent"

\* the workspace of job j lies (through base) inside the workspace of job k
RECURSIVE PathVia(_, _, _, _)
PathVia(b, j, k, n) ==
  IF n = 0 \/ b[j] = Orig THEN FALSE
  ELSE b[j] = k \/ PathVia(b, b[j], k, n - 1)

Below(s, k) == {j \in Jobs : s.pc[j] \notin {"idle", "extracting"}
                               /\ PathVia(s.base, j, k, NJobs)}

\* fs.rmSync(workDir of k, {recursive, force}) that succeeds
RmWorkDir(s, k) ==
  LET gone == Below(s, k) IN
  [s EXCEPT !.wd = [j \in Jobs |-> IF j = k \/ j \in gone THEN "absent"
                                   ELSE @[j]],
            !.rd = [j \in Jobs |-> IF j \in gone THEN NoDir ELSE @[j]],
            !.cwdLost = @ \/ s.cwd = k \/ s.cwd \in gone]

\* fs.mkdirSync(..., {recursive: true}) of reportsBaseDir/j and workDir of j
\* under directory b: missing ancestors are created again, empty.
MkDirs(s, j, b) ==
  LET anc == IF b = Orig THEN {} ELSE {b} \cup {k \in Jobs : PathVia(s.base, b, k, NJobs)} IN
  [s EXCEPT !.wd = [k \in Jobs |-> IF k = j THEN "present"
                                   ELSE IF k \in anc /\ @[k] = "absent"
                                        THEN "husk" ELSE @[k]],
            !.rd[j] = [ex |-> TRUE, files |-> {}]]

\* process.cwd(): the value is cached until the next chdir; an uncached
\* read in an unlinked directory throws ENOENT (uv_cwd).
CwdThrows(s) == s.cwdLost /\ ~s.cwdCached
CwdRead(s) == [s EXCEPT !.cwdCached = TRUE]

\* process.chdir(d) where d exists
Chdir(s, d) == [s EXCEPT !.cwd = d, !.cwdCached = FALSE, !.cwdLost = FALSE]

\* uploadedZipPath is the relative path multer returns: it names the
\* archive only while the process is in the directory it was saved from.
ZipVisible(s, j) == s.zip[j] /\ s.cwd = Orig

\* ------------------------------------------------------------ ChdirMutex
\* (a release callback that takes the newest waiter: pop() for shift())
ReleaseNewest(s, j) ==
  LET s1 == [s EXCEPT !.locked = FALSE, !.life[j].releases = @ + 1] IN
  IF s1.queue # << >>
  THEN LET next == s1.queue[Len(s1.queue)] IN
       [s1 EXCEPT !.queue = SubSeq(@, 1, Len(@) - 1), !.locked = TRUE,
                  !.micro = Append(@, next), !.pc[next] = "granted"]
  ELSE s1

\* the release callback returned by acquire()
Release(s, j) ==
  LET s1 == [s EXCEPT !.locked = FALSE, !.life[j].releases = @ + 1] IN
  IF s1.queue # << >>
  THEN LET next == Head(s1.queue) IN
       [s1 EXCEPT !.queue = Tail(@), !.locked = TRUE,
                  !.micro = Append(@, next), !.pc[next] = "granted"]
  ELSE s1

\* ChdirMutex.acquire() called by the coroutine of job j
Acquire(s, j) ==
  IF ~s.locked
  THEN [s EXCEPT !.locked = TRUE, !.micro = Append(@, j),
                 !.pc[j] = "granted", !.tick = @ + 1]
  ELSE [s EXCEPT !.queue = Append(@, j), !.pc[j] = "queued",
                 !.life[j].waited = s.tick + 1, !.tick = @ + 1]

\* ------------------------------------------- processThreatModelingJob
Removals == {"work", "zip", "ext"}

\* if (fs.existsSync(x)) { try { remove x } catch { log } } for x one of the
\* workspace, the uploaded archive, the extraction directory, the report
\* directory of job j; fails are the removals that throw
Remove(s, j, what, fails) ==
  LET there == CASE what = "work" -> DirExists(s, j)
                 [] what = "zip" -> ZipVisible(s, j)
                 [] what = "ext" -> s.ext[j]
                 [] what = "reports" -> s.rd[j].ex
  IN IF ~there THEN s
     ELSE IF what \in fails
     THEN [s EXCEPT !.life[j].rmFailed = @ \cup {what}]
     ELSE CASE what = "work" -> RmWorkDir(s, j)
            [] what = "zip" -> [s EXCEPT !.zip[j] = FALSE]
            [] what = "ext" -> [s EXCEPT !.ext[j] = FALSE]
            [] what = "reports" -> [s EXCEPT !.rd[j] = NoDir]

\* (a catch that marks the job failed and stores no message)
OuterCatchStatusOnly(s, j, errorMessage) ==
  IF j \in s.aborted \/ NotFound(s, j) THEN s
  ELSE SetRow(s, j, updateStatusRow(s.rec[j], "failed", UNDEF, UNDEF,
                                    UNDEF, UNDEF, UNDEF), TRUE)

\* catch (error) of the outer try: mark the job failed unless cancelled
OuterCatch(s, j, errorMessage) ==
  IF j \in s.aborted \/ NotFound(s, j) THEN s
  ELSE LET s1 == SetRow(s, j, updateStatusRow(s.rec[j], "failed", UNDEF, UNDEF,
                                              UNDEF, UNDEF, UNDEF), TRUE)
       IN SetRow(s1, j, updateErrorMessageRow(s1.rec[j], errorMessage), TRUE)

\* (a finally that leaves the RunningJob entry in the map)
FinallyKeepsEntry(s, j, fails) ==
  LET s1 == [s EXCEPT !.pc[j] = "done", !.originalCwd[j] = Orig,
                      !.life[j].final = s.rec[j]]
  IN Remove(Remove(Remove(s1, j, "work", fails), j, "zip", fails),
            j, "ext", fails)

\* (a finally whose cleanup stops at the first removal that throws)
FinallyStopsAtFailure(s, j, fails) ==
  LET s1 == [s EXCEPT !.runningJobs = @ \ {j}, !.pc[j] = "done",
                      !.originalCwd[j] = Orig, !.life[j].final = s.rec[j]]
      s2 == Remove(s1, j, "work", fails)
      s3 == IF "work" \in s2.life[j].rmFailed THEN s2 ELSE Remove(s2, j, "zip", fails)
  IN IF s3.life[j].rmFailed # {} THEN s3 ELSE Remove(s3, j, "ext", fails)

\* finally of the outer try; fails are the removals that throw
Finally(s, j, fails) ==
  LET s1 == [s EXCEPT !.runningJobs = @ \ {j}, !.pc[j] = "done",
                      !.originalCwd[j] = Orig, !.life[j].final = s.rec[j]]
  IN Remove(Remove(Remove(s1, j, "work", fails), j, "zip", fails),
            j, "ext", fails)

\* catch (error) of the mutex-protected try: restore the directory (best
\* effort), release, record the metrics, rethrow.  The result is the state
\* and the message of the error that leaves the block.
InnerCatch(s, j, errorMessage) ==
  LET s1 == IF DirExists(s, s.originalCwd[j])
            THEN Chdir(s, s.originalCwd[j]) ELSE s
      s2 == Release(s1, j)
  IN IF NotFound(s2, j) THEN [st |-> s2, msg |-> "Job not found"]
     ELSE [st |-> SetRow(s2, j, updateExecutionMetricsRow(s2.rec[j]), FALSE),
           msg |-> errorMessage]

Failed(s, j, errorMessage, fails) ==
  Finally(OuterCatch(s, j, errorMessage), j, fails)

FailedInside(s, j, errorMessage, fails) ==
  LET c == InnerCatch(s, j, errorMessage) IN Failed(c.st, j, c.msg, fails)

\* (the first file of a category wins)
RECURSIVE FirstOf(_, _)
FirstOf(files, cat) ==
  IF files = << >> THEN NULL
  ELSE IF CategoryOf(Head(files)) = cat THEN Head(files)
  ELSE FirstOf(Tail(files), cat)

\* the path fields chosen by the copy loop: the last file of a category wins
RECURSIVE LastOf(_, _)
LastOf(files, cat) ==
  IF files = << >> THEN NULL
  ELSE LET f == files[Len(files)] IN
       IF CategoryOf(f) = cat THEN f
       ELSE LastOf(SubSeq(files, 1, Len(files) - 1), cat)

Range(q) == {q[i] : i \in 1..Len(q)}

\* Step 5 onwards: harvest, copy, persist.  scan is the list of regular
\* files met in the search directories, in scan order.
Harvest(s, j, scan, fails) ==
  LET reportFiles == SelectSeq(scan, isReport)
      s1 == [s EXCEPT !.life[j].harvested = TRUE, !.life[j].found = Range(reportFiles)]
  IN IF reportFiles = << >>
     THEN Failed(s1, j, "No threat modeling report files were generated", fails)
     ELSE IF ~s1.rd[j].ex
     THEN Failed(s1, j, "ENOENT", fails)
     ELSE LET s2 == [s1 EXCEPT !.rd[j].files = @ \cup Range(reportFiles)] IN
          IF j \in s2.aborted
          THEN Failed(s2, j, "Job was cancelled", fails)
          ELSE IF NotFound(s2, j)
          THEN Failed(s2, j, "Job not found", fails)
          ELSE Finally(
                 SetRow(s2, j,
                        updateReportsRow(s2.rec[j],
                                         LastOf(reportFiles, "data_flow"),
                                         LastOf(reportFiles, "threat_model"),
                                         LastOf(reportFiles, "risk_registry")),
                        TRUE),
                 j, fails)

\* (close and error handlers that reject only when the spawn fails)
RejectsSpawnErrorOnly(outcome) == outcome = "spawnError"

\* the 'close' and 'error' handlers of the child process reject the awaited
\* promise for a null exit code and for a spawn failure, and resolve it for
\* every exit code
Rejects(outcome) == outcome \in {"signal", "spawnError"}

\* the continuation of the awaited child-process promise
\* (lines 600-667 and what follows)
AfterChild(s, j, outcome, scan, fails) ==
  LET s0 == [s EXCEPT !.life[j].exit = outcome,
                      !.life[j].left = \E i \in 1..Len(scan) : isReport(scan[i])]
  IN
  IF Rejects(outcome)
  THEN FailedInside(s0, j, "agent-run did not run to an exit code", fails)
  ELSE IF ~DirExists(s0, s0.originalCwd[j])
  THEN FailedInside(s0, j, "ENOENT", fails)
  ELSE LET s1 == Release(Chdir(s0, s0.originalCwd[j]), j) IN
       IF NotFound(s1, j)
       THEN FailedInside(s1, j, "Job not found", fails)
       ELSE Harvest(SetRow(s1, j, updateExecutionMetricsRow(s1.rec[j]), FALSE),
                    j, scan, fails)

\* the continuation of await ChdirMutex.acquire() (lines 496-598)
AfterAcquire(s, j, fails) ==
  LET s0 == [s EXCEPT !.life[j].entered = TRUE] IN
  IF CwdThrows(s0)
  THEN Failed(s0, j, "ENOENT", fails)
  ELSE LET s1 == [CwdRead(s0) EXCEPT !.originalCwd[j] = s0.cwd]
       IN IF ~DirExists(s1, j)
          THEN FailedInside(s1, j, "ENOENT", fails)
          ELSE [Chdir(s1, j) EXCEPT !.pc[j] = "running"]

\* the synchronous start of processThreatModelingJob (lines 252-495),
\* called by POST / right after ThreatModelingJobModel.create
PreOutcomes == {"ok", "noConfig", "badRepo"}

StartJob(s, j, uploaded, pre, fails) ==
  LET s0 == [s EXCEPT !.rec[j] = createRow(OwnerOf(j)),
                      !.statusLog[j] = <<createRow(OwnerOf(j)).status>>]
  IN IF CwdThrows(s0)
     THEN [s0 EXCEPT !.pc[j] = "done", !.life[j].final = s0.rec[j]]
     ELSE
       LET s1 == [CwdRead(s0) EXCEPT !.base[j] = s0.cwd,
                                     !.runningJobs = @ \cup {j},
                                     !.life[j].pre = pre]
           s2 == SetRow(s1, j, updateStatusRow(s1.rec[j], "processing", UNDEF,
                                               UNDEF, UNDEF, UNDEF, UNDEF), TRUE)
       IN IF pre = "noConfig"
          THEN Failed(s2, j, "Anthropic API configuration not found", fails)
          ELSE LET s3 == MkDirs(s2, j, s2.base[j]) IN
               IF uploaded /\ ~s3.ext[j]
               THEN Failed(s3, j, "Repository validation failed", fails)
               ELSE IF pre = "badRepo"
               THEN Failed(s3, j, "Repository validation failed", fails)
               ELSE Acquire(SetRow(s3, j, updateMetadataRow(s3.rec[j], "repo"),
                                   FALSE), j)

InitJobs ==
  /\ pc = [j \in Jobs |-> "idle"]
  /\ rec = [j \in Jobs |-> NoRec]
  /\ statusLog = [j \in Jobs |-> << >>]
  /\ runningJobs = {}
  /\ aborted = {}
  /\ locked = FALSE
  /\ queue = << >>
  /\ micro = << >>
  /\ cwd = Orig
  /\ cwdCached = FALSE
  /\ cwdLost = FALSE
  /\ base = [j \in Jobs |-> Orig]
  /\ originalCwd = [j \in Jobs |-> Orig]
  /\ wd = [j \in Jobs |-> "absent"]
  /\ rd = [j \in Jobs |-> NoDir]
  /\ zip = [j \in Jobs |-> FALSE]
  /\ ext = [j \in Jobs |-> FALSE]
  /\ life = [j \in Jobs |-> NoLife]
  /\ tick = 0
  /\ child = [j \in Jobs |-> NoChild]

Init == InitJobs /\ arg = NULL /\ res = NULL

\* ------------------------------------------------------------- actions
\* Each action takes the environment b of the specification it is used in:
\*   b.lim   the number of start-job requests,
\*   b.rej   a request may come without archive and without path,
\*   b.pre   what the steps before the mutex may run into,
\*   b.nf    the number of removals that may fail, b.fal which ones may,
\*   b.outs  the ways the child process may end,
\*   b.ms    the number of files the harvester meets, b.names their names.
ScansUpTo(b) == UNION {[1..n -> b.names] : n \in 0..b.ms}
Outcomes == {"zero", "nonzero", "signal", "spawnError"}

RmFailCount(s) ==
  LET RECURSIVE Sum(_)
      Sum(n) == IF n = 0 THEN 0
                ELSE Cardinality(s.life[n].rmFailed) + Sum(n - 1)
  IN Sum(NJobs)

\* the sets of removals that may throw in the next handler of job j: a
\* removal that failed before may fail again, new failures are bounded
FailSets(b, j) ==
  {F \in SUBSET b.fal :
     Cardinality(F \ life[j].rmFailed) + RmFailCount(Cur) <= b.nf}

\* the handler ran to state s and the removals in fails were tried and threw
Try(s, j, fails) ==
  /\ s.life[j].rmFailed = life[j].rmFailed \cup fails
  /\ Commit(s)

\* request slots are used in order (job ids are fresh uuids)
Fresh(j, b) ==
  j <= b.lim /\ pc[j] = "idle" /\ \A k \in Jobs : k < j => pc[k] # "idle"

\* (a handler that creates the job before it looks for repoPath)
PostPathCreatesFirst(j, b) ==
  /\ micro = << >>
  /\ Fresh(j, b)
  /\ \/ b.rej /\ Commit([Cur EXCEPT !.pc[j] = "rejected",
                                     !.rec[j] = createRow(OwnerOf(j))])
     \/ \E pre \in b.pre, fails \in FailSets(b, j) :
          Try(StartJob(Cur, j, FALSE, pre, fails), j, fails)

\* POST / without a file: repoPath from the body, or 400 without one
PostPath(j, b) ==
  /\ micro = << >>
  /\ Fresh(j, b)
  /\ \/ b.rej /\ Commit([Cur EXCEPT !.pc[j] = "rejected"])
     \/ \E pre \in b.pre, fails \in FailSets(b, j) :
          Try(StartJob(Cur, j, FALSE, pre, fails), j, fails)

\* POST / with a file: multer stores the archive under the relative
\* directory uploads/threat-modeling/ (ENOENT when the process is in a
\* workspace), then the handler starts extractZip
PostUpload(j, b) ==
  /\ micro = << >>
  /\ Fresh(j, b)
  /\ Cardinality({k \in Jobs : life[k].upl}) < MaxUploads
  /\ IF cwd # Orig
     THEN Commit([Cur EXCEPT !.pc[j] = "rejected", !.life[j].upl = TRUE])
     ELSE Commit([CwdRead(Cur) EXCEPT !.pc[j] = "extracting",
                                      !.life[j].upl = TRUE,
                                      !.zip[j] = TRUE, !.ext[j] = TRUE])

\* extractZip settles: on failure the handler cleans up and answers 500,
\* otherwise it creates the job and starts processThreatModelingJob
ExtractDone(j, b) ==
  /\ micro = << >>
  /\ pc[j] = "extracting"
  /\ \E fails \in FailSets(b, j) :
       \/ Try(Remove(Remove([Cur EXCEPT !.pc[j] = "rejected"],
                            j, "zip", fails), j, "ext", fails), j, fails)
       \/ \E pre \in b.pre :
            Try(StartJob(Cur, j, TRUE, pre, fails), j, fails)

\* the continuation of the oldest resolved acquire()
Resume(b) ==
  /\ micro # << >>
  /\ \E fails \in FailSets(b, Head(micro)) :
       Try(AfterAcquire([Cur EXCEPT !.micro = Tail(@)], Head(micro), fails),
           Head(micro), fails)

\* the child process of job j ends: 'close' with an exit code, 'close'
\* with code null (killed by a signal), or 'error' (spawn failure); scan is
\* what the agent left in the workspace, if the workspace is still there
ChildEnds(j, b) ==
  /\ micro = << >>
  /\ pc[j] = "running"
  /\ \E outcome \in b.outs, fails \in FailSets(b, j) :
       \E scan \in IF wd[j] = "present" THEN ScansUpTo(b) ELSE {<< >>} :
          Try(AfterChild(Cur, j, outcome, scan, fails), j, fails)

\* childProcess.kill(signal) on a child that has not closed: the signal is
\* delivered and childProcess.killed becomes true (it says that a signal was
\* sent, not that the child has ended)
Kill(c, signal) ==
  IF signal = "SIGKILL" THEN [c EXCEPT !.kill9 = TRUE, !.killed = TRUE]
  ELSE [c EXCEPT !.term = TRUE, !.killed = TRUE]

\* abortController.abort(): the 'abort' listener, registered at line 588
\* once the child is spawned, runs inside the call; it runs once
Abort(s, j) ==
  IF s.pc[j] = "running" /\ j \notin s.aborted
  THEN [s EXCEPT !.aborted = @ \cup {j},
                 !.child[j] = [Kill(@, "SIGTERM") EXCEPT !.timer = "armed"]]
  ELSE [s EXCEPT !.aborted = @ \cup {j}]

\* the callback of setTimeout(..., 5000) in the 'abort' listener
GraceOver(c) ==
  [(IF ~c.killed THEN Kill(c, "SIGKILL") ELSE c) EXCEPT !.timer = "fired"]

\* (a handler that cancels and cleans up before it looks the record up)
DeleteJobLateLookup(s, j, u, fails) ==
  LET a == Abort(s, j)
      b == Remove(a, j, "work", fails)
      c == Remove(b, j, "zip", fails)
      d == Remove(c, j, "ext", fails)
      s1 == IF j \in s.runningJobs
            THEN [d EXCEPT !.runningJobs = @ \ {j}] ELSE s
      s2 == Remove(s1, j, "reports", fails)
  IN IF NotFound(s2, j) THEN [st |-> s2, code |-> 404]
     ELSE [st |-> [s2 EXCEPT !.rec[j] = NoRec, !.statusLog[j] = << >>],
           code |-> 200]

\* (a handler that does not compare job.user_id with the caller)
DeleteJobAnyUser(s, j, u, fails) ==
  IF NotFound(s, j) THEN [st |-> s, code |-> 404]
  ELSE
    LET a == Abort(s, j)
        b == Remove(a, j, "work", fails)
        c == Remove(b, j, "zip", fails)
        d == Remove(c, j, "ext", fails)
        s1 == IF j \in s.runningJobs
              THEN [d EXCEPT !.runningJobs = @ \ {j}] ELSE s
    IN IF CwdThrows(s1) THEN [st |-> s1, code |-> 500]
       ELSE LET s2 == CwdRead(s1)
                s3 == IF s2.cwd = s2.base[j]
                      THEN Remove(s2, j, "reports", fails) ELSE s2
            IN [st |-> [s3 EXCEPT !.rec[j] = NoRec, !.statusLog[j] = << >>],
                code |-> 200]

\* DELETE /jobs/:id by user u: the state it leaves and the status it answers
DeleteJob(s, j, u, fails) ==
  IF NotFound(s, j) THEN [st |-> s, code |-> 404]
  ELSE IF s.rec[j].user_id # u THEN [st |-> s, code |-> 403]
  ELSE
    LET a == Abort(s, j)
        b == Remove(a, j, "work", fails)
        c == Remove(b, j, "zip", fails)
        d == Remove(c, j, "ext", fails)
        s1 == IF j \in s.runningJobs
              THEN [d EXCEPT !.runningJobs = @ \ {j}] ELSE s
    IN IF CwdThrows(s1) THEN [st |-> s1, code |-> 500]
       ELSE LET s2 == CwdRead(s1)
                s3 == IF s2.cwd = s2.base[j]
                      THEN Remove(s2, j, "reports", fails) ELSE s2
            IN [st |-> [s3 EXCEPT !.rec[j] = NoRec, !.statusLog[j] = << >>],
                code |-> 200]

Delete(j, b) ==
  /\ micro = << >>
  /\ pc[j] \notin {"idle", "extracting", "rejected"}
  /\ \E u \in Users, fails \in FailSets(b, j) :
       Try(DeleteJob(Cur, j, u, fails).st, j, fails)

\* five seconds after the 'abort' listener of job j ran, its timeout fires
Timer(j) ==
  /\ micro = << >>
  /\ child[j].timer = "armed"
  /\ Commit([Cur EXCEPT !.child[j] = GraceOver(@)])

\* ------------------------------------------------------ specifications
\* Spec: MainJobs requests, uploads, any removal may fail.
MainBounds == [lim |-> MainJobs, rej |-> TRUE, pre |-> PreOutcomes,
               nf |-> MaxRmFail, fal |-> Removals \cup {"reports"},
               outs |-> Outcomes, ms |-> MaxScan, names |-> FileNames]

Next ==
  \/ \E j \in Jobs : PostPath(j, MainBounds)
  \/ \E j \in Jobs : PostUpload(j, MainBounds)
  \/ \E j \in Jobs : ExtractDone(j, MainBounds)
  \/ Resume(MainBounds)
  \/ \E j \in Jobs : ChildEnds(j, MainBounds)
  \/ \E j \in Jobs : Delete(j, MainBounds)

Spec == Init /\ [][Next]_vars

\* SpecMutex: MutexJobs requests by repository path; only the removal of a
\* workspace may fail; the agent leaves no file for the harvester.
MutexBounds == [lim |-> MutexJobs, rej |-> TRUE, pre |-> PreOutcomes,
                nf |-> MaxRmFail, fal |-> {"work"},
                outs |-> Outcomes, ms |-> 0, names |-> FileNames]

NextMutex ==
  \/ \E j \in Jobs : PostPath(j, MutexBounds)
  \/ Resume(MutexBounds)
  \/ \E j \in Jobs : ChildEnds(j, MutexBounds)
  \/ \E j \in Jobs : Delete(j, MutexBounds)

SpecMutex == Init /\ [][NextMutex]_vars

\* SpecCancel: MutexJobs requests by repository path that all reach the mutex;
\* the removal of a workspace may fail once more than in Spec; the child
\* exits with a non-zero code or is killed; the agent leaves at most one
\* file, a data-flow report.
CancelBounds == [lim |-> MutexJobs, rej |-> FALSE, pre |-> {"ok"},
                 nf |-> MaxRmFail + 1, fal |-> {"work"},
                 outs |-> {"nonzero", "signal"}, ms |-> 1,
                 names |-> {"data_flow.md"}]

NextCancel ==
  \/ \E j \in Jobs : PostPath(j, CancelBounds)
  \/ Resume(CancelBounds)
  \/ \E j \in Jobs : ChildEnds(j, CancelBounds)
  \/ \E j \in Jobs : Delete(j, CancelBounds)

SpecCancel == Init /\ [][NextCancel]_vars

\* SpecLeak: NJobs requests by repository path that all reach the mutex;
\* the removal of a workspace may fail; every child exits with code 0 and
\* the agent leaves no file for the harvester.
LeakBounds == [lim |-> NJobs, rej |-> FALSE, pre |-> {"ok"},
               nf |-> MaxRmFail, fal |-> {"work"},
               outs |-> {"zero"}, ms |-> 0, names |-> FileNames]

NextLeak ==
  \/ \E j \in Jobs : PostPath(j, LeakBounds)
  \/ Resume(LeakBounds)
  \/ \E j \in Jobs : ChildEnds(j, LeakBounds)
  \/ \E j \in Jobs : Delete(j, LeakBounds)

SpecLeak == Init /\ [][NextLeak]_vars

\* SpecKill: MainJobs requests by repository path that all reach the mutex;
\* no removal fails; a child exits with code 0 or is ended by a signal, at
\* any time or never; the timeouts of the 'abort' listeners fire.
KillBounds == [lim |-> MainJobs, rej |-> FALSE, pre |-> {"ok"},
               nf |-> 0, fal |-> {},
               outs |-> {"zero", "signal"}, ms |-> 0, names |-> FileNames]

NextKill ==
  \/ \E j \in Jobs : PostPath(j, KillBounds)
  \/ Resume(KillBounds)
  \/ \E j \in Jobs : ChildEnds(j, KillBounds)
  \/ \E j \in Jobs : Delete(j, KillBounds)
  \/ \E j \in Jobs : Timer(j)

SpecKill == Init /\ [][NextKill]_vars

\* The hourly setInterval callback: cleanupOrphanedUploads() removes every
\* extracted-* directory and every multer file of uploads/threat-modeling
\* under process.cwd(), whatever request or job they belong to; it returns
\* at once when there is no uploads directory under the current directory,
\* and an ENOENT of process.cwd() is caught by the callback.
CleanupOrphanedUploads ==
  /\ micro = << >>
  /\ IF CwdThrows(Cur) \/ cwd # Orig
     THEN Commit(IF CwdThrows(Cur) THEN Cur ELSE CwdRead(Cur))
     ELSE Commit([CwdRead(Cur) EXCEPT !.zip = [j \in Jobs |-> FALSE],
                                      !.ext = [j \in Jobs |-> FALSE]])

\* SpecUploads: requests with and without an archive and the periodic
\* cleanup; no removal fails.
SpecUploads ==
  Init /\ [][\/ \E j \in Jobs : PostPath(j, KillBounds)
             \/ \E j \in Jobs : PostUpload(j, KillBounds)
             \/ \E j \in Jobs : ExtractDone(j, KillBounds)
             \/ Resume(KillBounds)
             \/ \E j \in Jobs : ChildEnds(j, KillBounds)
             \/ CleanupOrphanedUploads]_vars

\* SpecLive: SpecKill in which every continuation that is ready runs (the
\* event loop drains the microtask queue) and every spawned child process
\* ends, so that no job stays with a running child for ever; requests
\* remain the callers' choice.
SpecLive ==
  /\ Init /\ [][NextKill]_vars
  /\ WF_vars(Resume(KillBounds))
  /\ \A j \in Jobs : []<>(pc[j] # "running")

\* SpecStore: the operations of ThreatModelingJobModel called in any order
\* on MaxRows rows, with every combination of their optional arguments.
Statuses == {"pending", "processing", "completed", "failed"}
PathArgs == {NULL, "report"}
MessageArgs == {NULL, "error"}

StoreWrite(j, r) ==
  /\ rec' = [rec EXCEPT ![j] = r]
  /\ UNCHANGED <<pc, statusLog, runningJobs, aborted, locked, queue, micro,
                 cwd, cwdCached, cwdLost, base, originalCwd, wd, rd, zip,
                 ext, life, tick, child, arg, res>>

StoreRow(j) == j <= MaxRows /\ rec[j].present

StoreCreate(j) ==
  /\ j <= MaxRows /\ ~rec[j].present
  /\ StoreWrite(j, createRow(OwnerOf(j)))

StoreUpdateStatus(j) ==
  /\ StoreRow(j)
  /\ \E status \in Statuses, reportPath \in PathArgs \cup {UNDEF},
        errorMessage \in MessageArgs \cup {UNDEF},
        reportPaths \in PathArgs \cup {UNDEF} :
       StoreWrite(j, updateStatusRow(rec[j], status, reportPath, errorMessage,
                                     reportPaths, reportPaths, reportPaths))

StoreUpdateReports(j) ==
  /\ StoreRow(j)
  /\ \E dataFlowDiagramPath, threatModelPath, riskRegistryPath \in PathArgs :
       StoreWrite(j, updateReportsRow(rec[j], dataFlowDiagramPath,
                                      threatModelPath, riskRegistryPath))

StoreUpdateErrorMessage(j) ==
  /\ StoreRow(j)
  /\ StoreWrite(j, updateErrorMessageRow(rec[j], "error"))

StoreUpdateMetadata(j) ==
  /\ StoreRow(j)
  /\ \E repoName \in {NULL, "repo"} :
       StoreWrite(j, updateMetadataRow(rec[j], repoName))

StoreUpdateExecutionMetrics(j) ==
  /\ StoreRow(j)
  /\ StoreWrite(j, updateExecutionMetricsRow(rec[j]))

NextStore ==
  \/ \E j \in Jobs : StoreCreate(j)
  \/ \E j \in Jobs : StoreUpdateStatus(j)
  \/ \E j \in Jobs : StoreUpdateReports(j)
  \/ \E j \in Jobs : StoreUpdateErrorMessage(j)
  \/ \E j \in Jobs : StoreUpdateMetadata(j)
  \/ \E j \in Jobs : StoreUpdateExecutionMetrics(j)

SpecStore == Init /\ [][NextStore]_vars

\* -------------------------------------------------------------- extractZip
\* A path is the sequence of its segments and a segment the sequence of its
\* characters, so that String.startsWith is told from containment.  An
\* archive is the sequence of its entries' file names; a name that ends in
\* "/" has the empty segment last.
MaxSegs == 3          \* segments of an entry's file name
MaxEntries == 2       \* entries of an archive

DotDot == <<".", ".">>
Slash == << >>
extractTo == << <<"u">>, <<"x", "1">> >>
EntrySegments == {DotDot, <<"x", "1", "2">>, <<"f">>}

FileEntries == UNION {[1..n -> EntrySegments] : n \in 1..MaxSegs}
DirEntries ==
  {Append(q, Slash) : q \in UNION {[1..n -> EntrySegments] : n \in 1..(MaxSegs - 1)}}
Archives == UNION {[1..n -> FileEntries \cup DirEntries] : n \in 0..MaxEntries}

\* path.normalize of an absolute path: ".." pops, "." and an empty segment
\* are dropped
RECURSIVE normalizeFrom(_, _)
normalizeFrom(acc, segs) ==
  IF segs = << >> THEN acc
  ELSE LET h == Head(segs) IN
       IF h = DotDot
       THEN normalizeFrom(IF acc = << >> THEN acc
                          ELSE SubSeq(acc, 1, Len(acc) - 1), Tail(segs))
       ELSE IF h = Slash \/ h = <<".">> THEN normalizeFrom(acc, Tail(segs))
       ELSE normalizeFrom(Append(acc, h), Tail(segs))

normalize(p) == normalizeFrom(<< >>, p)

\* path.join(a, b)
join(a, b) == normalize(a \o b)

IsPrefix(a, b) == Len(a) <= Len(b) /\ SubSeq(b, 1, Len(a)) = a

\* p.startsWith(d) on the strings of two absolute paths, d not the root
startsWith(p, d) ==
  /\ Len(p) >= Len(d)
  /\ SubSeq(p, 1, Len(d) - 1) = SubSeq(d, 1, Len(d) - 1)
  /\ IsPrefix(d[Len(d)], p[Len(d)])

\* file p lies in directory d
Inside(p, d) == Len(p) > Len(d) /\ SubSeq(p, 1, Len(d)) = d

\* the 'entry' handler; ok: the entry's read stream opens and its write
\* stream closes without error (a write stream on the destination directory
\* itself, which exists, fails)
onEntry(r, fileName, ok) ==
  IF fileName[Len(fileName)] = Slash THEN [r EXCEPT !.next = @ + 1]
  ELSE LET fullPath == join(extractTo, fileName)
           normalizedPath == normalize(fullPath)
       IN IF ~startsWith(normalizedPath, normalize(extractTo))
          THEN [r EXCEPT !.next = @ + 1]
          ELSE IF ~ok \/ normalizedPath = extractTo
          THEN [r EXCEPT !.state = "rejected"]
          ELSE [r EXCEPT !.written = @ \cup {normalizedPath}, !.next = @ + 1]

\* yauzl.open calls back
ZipOpen ==
  /\ res.state = "opening"
  /\ \E ok \in BOOLEAN :
       Commit([Cur EXCEPT !.res.state = IF ok THEN "reading" ELSE "rejected"])

\* zipfile emits 'entry' after readEntry()
ZipEntry ==
  /\ res.state = "reading" /\ res.next <= Len(arg)
  /\ \E ok \in BOOLEAN : Commit([Cur EXCEPT !.res = onEntry(@, arg[res.next], ok)])

\* zipfile emits 'end' after the readEntry() that follows the last entry
ZipEnd ==
  /\ res.state = "reading" /\ res.next > Len(arg)
  /\ Commit([Cur EXCEPT !.res.state = "resolved"])

InitExtract ==
  /\ InitJobs
  /\ arg \in Archives
  /\ res = [state |-> "opening", next |-> 1, written |-> {}]

NextExtract == ZipOpen \/ ZipEntry \/ ZipEnd

SpecExtract == InitExtract /\ [][NextExtract]_vars

\* ------------------------------------------- repository name and unpacking
\* A name is the sequence of its characters.  The extracted archive (or the
\* directory at repoPath) is the set of the paths of its files, a path
\* being a sequence of names: extractZip creates directories only as the
\* parents of files.
\* the characters of [a-zA-Z0-9._-] that the names below are made of
ValidChars == {"a", "b", "c", "e", "g", "i", "j", "k", "o", "p", "r", "s", "x",
               "z", "I", "P", "Z", "1", ".", "_", "-"}

Lower(c) == CASE c = "Z" -> "z" [] c = "I" -> "i" [] c = "P" -> "p" [] OTHER -> c

\* null or undefined where a name is expected
NoName == <<"null">>

DotZip == <<".", "z", "i", "p">>
src == <<"s", "r", "c">>
packageJson == <<"p", "k", "g", ".", "j", "s">>
routes == <<"r", "s">>
repo == <<"r", "e", "p", "o">>
extractedBase == <<"e", "x", "-", "1">>

\* original names of uploaded archives; NoName when there is none
ZipFileNames ==
  {NoName, DotZip, <<"a", " ", "b", ".", "Z", "I", "P">>, <<"a", ".", "z">>,
   <<"c", "/", ".", "z", "i", "p">>, <<".">> \o DotZip, DotDot \o DotZip}

\* names of top-level directories and files of an archive
TopNames == {<<"a", " ", "b">>, <<"a", "p", "p">>, src, packageJson, routes}

\* the name field of package.json at the extraction root; NoName when there
\* is no usable package.json, the empty name when the field is empty
PackageNames == {NoName, << >>, <<"p", "@", "k">>}

TreePaths ==
  {<<t>> : t \in TopNames} \cup
  {<<t, u>> : t \in {<<"a", " ", "b">>, <<"a", "p", "p">>},
              u \in {src, packageJson, routes}}

\* trees in which no name is both a file and a directory
Trees ==
  {T \in SUBSET TreePaths : \A p1 \in T, p2 \in T : Len(p1) < Len(p2) => p1[1] # p2[1]}

\* name.replace(/\.zip$/i, '')
stripZip(name) ==
  IF Len(name) >= 4 /\
     [i \in 1..4 |-> Lower(name[Len(name) - 4 + i])] = DotZip
  THEN SubSeq(name, 1, Len(name) - 4) ELSE name

\* a value that JavaScript's !x takes for absent
Falsy(x) == x = NoName \/ x = << >>

\* detectRepoMetadata(repoDir, zipFileName).repoName
detectRepoName(dirName, packageName, zipFileName) ==
  LET n1 == IF ~Falsy(zipFileName) THEN stripZip(zipFileName) ELSE NoName
      n2 == IF Falsy(n1) /\ ~Falsy(packageName) THEN packageName ELSE n1
  IN IF Falsy(n2) THEN dirName ELSE n2

\* fs.readdirSync of the root of tree
Contents(tree) == {p[1] : p \in tree}

IsDirectory(tree, name) == \E p \in tree : p[1] = name /\ Len(p) > 1

\* the tree has exactly one top-level entry and it is a directory
SingleRoot(tree) ==
  Cardinality(Contents(tree)) = 1 /\ \A n \in Contents(tree) : IsDirectory(tree, n)

\* (a choice that never looks at the top-level directory of the archive)
chooseRepoNameFromFileName(a) ==
  IF a.upload /\ a.exists
  THEN detectRepoName(extractedBase, a.packageName, a.zipFileName)
  ELSE IF ~Falsy(a.zipFileName) /\ ~Falsy(stripZip(a.zipFileName))
  THEN stripZip(a.zipFileName)
  ELSE repo

\* Step 2 (lines 346-375): the name before it is sanitized
chooseRepoName(a) ==
  LET n1 == IF a.upload /\ a.exists
            THEN IF SingleRoot(a.tree) THEN CHOOSE n \in Contents(a.tree) : TRUE
                 ELSE detectRepoName(extractedBase, a.packageName, a.zipFileName)
            ELSE NoName
  IN IF ~Falsy(n1) THEN n1
     ELSE IF ~Falsy(a.zipFileName) THEN stripZip(a.zipFileName)
     ELSE repo

\* (a sanitizer that keeps the name as it is)
keepName(name) == IF Falsy(name) THEN repo ELSE name

\* lines 377-381: repoName.replace(/[^a-zA-Z0-9._-]/g, '_'), then 'repo'
\* for an empty name
sanitize(name) ==
  LET n == [i \in 1..Len(name) |-> IF name[i] \in ValidChars THEN name[i] ELSE "_"]
  IN IF Falsy(n) THEN repo ELSE n

\* (a copy that always starts at the extraction root)
sourceRoot(tree) == tree

\* lines 397-408: what fs.cpSync copies into repoDir, as paths below it
sourceOf(tree) ==
  IF SingleRoot(tree) THEN {Tail(p) : p \in tree} ELSE tree

hasBackendFiles(repoDirContents) ==
  /\ src \in repoDirContents /\ packageJson \in repoDirContents
  /\ routes \in repoDirContents

\* Step 2 of processThreatModelingJob
DetermineRepoName ==
  /\ res.state = "start"
  /\ Commit([Cur EXCEPT !.res.state = "named",
                         !.res.raw = chooseRepoName(arg),
                         !.res.repoName = sanitize(chooseRepoName(arg))])

\* Step 3 of processThreatModelingJob: copy into workDir/repoName; the value
\* of work is the set of paths below workDir
Unpack ==
  /\ res.state = "named"
  /\ IF ~arg.exists THEN Commit([Cur EXCEPT !.res.state = "failed"])
     ELSE LET copied == IF arg.upload THEN sourceOf(arg.tree) ELSE arg.tree
              work == {<<res.repoName>> \o p : p \in copied}
          IN IF arg.upload /\ hasBackendFiles(Contents(copied))
             THEN Commit([Cur EXCEPT !.res.state = "failed", !.res.work = work])
             ELSE Commit([Cur EXCEPT !.res.state = "copied", !.res.work = work])

\* an upload whose extraction left nothing is refused by POST / (line 936)
InitUnpack ==
  /\ InitJobs
  /\ arg \in [upload : BOOLEAN, exists : BOOLEAN, tree : Trees \ {{}},
              zipFileName : ZipFileNames, packageName : PackageNames]
  /\ arg.upload = (arg.zipFileName # NoName)
  /\ res = [state |-> "start", raw |-> NoName, repoName |-> NoName, work |-> {}]

NextUnpack == DetermineRepoName \/ Unpack

SpecUnpack == InitUnpack /\ [][NextUnpack]_vars

\* ------------------------------------------------------- report harvester
\* The search directories in the order of searchDirs: workDir, repoDir, the
\* hidden directories of workDir, the hidden directories of repoDir; each is
\* given as the list fs.readdirSync returns for it (regular files only).
MaxDirFiles == 2      \* files of a search directory

DirListings ==
  {q \in UNION {[1..n -> FileNames] : n \in 0..MaxDirFiles} :
     \A a, b \in 1..Len(q) : a # b => q[a] # q[b]}

\* lines 705-741: the report files of all search directories, in scan order
collectReportFiles(dirs) ==
  SelectSeq(dirs[1] \o dirs[2] \o dirs[3] \o dirs[4], isReport)

\* Step 5 of processThreatModelingJob on the listings in arg
CollectReports ==
  /\ res.state = "start"
  /\ LET reportFiles == collectReportFiles(arg) IN
     Commit([Cur EXCEPT !.res =
        [state |-> "harvested",
         data_flow |-> LastOf(reportFiles, "data_flow"),
         threat_model |-> LastOf(reportFiles, "threat_model"),
         risk_registry |-> LastOf(reportFiles, "risk_registry")]])

InitHarvest ==
  /\ InitJobs
  /\ arg \in [1..4 -> DirListings]
  /\ res = [state |-> "start", data_flow |-> NULL, threat_model |-> NULL,
            risk_registry |-> NULL]

NextHarvest == CollectReports

SpecHarvest == InitHarvest /\ [][NextHarvest]_vars

\* ================================================================ settings
\* The settings row (id = 1) and SettingsModel.  A ciphertext is the pair of
\* the plaintext and the key it was made with: the random salt and IV change
\* its bytes and nothing of what decrypt returns.  An operation yields the row
\* it leaves and whether it threw; "short" is a key of less than 32
\* characters, and a field of updates is NULL when it is undefined.

\* encryption keys of 32 characters and more
EncryptionKeys == {"k1", "k2", "k3"}

\* API keys an administrator sets
ApiKeys == {"p1", "p2"}

\* SQL NULL and the empty string in the column anthropic_api_key
NoCipher == [text |-> NULL, key |-> NULL]
EmptyCipher == [text |-> "", key |-> ""]

encrypt(text, encryptionKey) ==
  IF text = "" THEN EmptyCipher ELSE [text |-> text, key |-> encryptionKey]

decrypt(encryptedData, encryptionKey) ==
  IF encryptedData = EmptyCipher THEN ""
  ELSE IF encryptedData.key = encryptionKey THEN encryptedData.text
  ELSE "Decryption failed"

\* SettingsModel.get(includeDecryptedApiKey): what it returns, or that it threw
get(row, includeDecryptedApiKey) ==
  LET decryptedApiKey ==
        IF includeDecryptedApiKey /\ row.anthropic_api_key \notin {NoCipher, EmptyCipher}
        THEN decrypt(row.anthropic_api_key, row.encryption_key) ELSE NULL
  IN [threw |-> decryptedApiKey = "Decryption failed",
      encryption_key |-> row.encryption_key,
      anthropic_api_key |-> decryptedApiKey]

updateEncryptionKey(row, newEncryptionKey) ==
  IF newEncryptionKey = "short" THEN [row |-> row, threw |-> TRUE]
  ELSE LET currentSettings == get(row, TRUE) IN
       IF currentSettings.threw THEN [row |-> row, threw |-> TRUE]
       ELSE LET encryptedApiKey ==
                  IF currentSettings.anthropic_api_key \notin {NULL, ""}
                  THEN encrypt(currentSettings.anthropic_api_key, newEncryptionKey)
                  ELSE NoCipher
            IN [row |-> [encryption_key |-> newEncryptionKey,
                         anthropic_api_key |-> encryptedApiKey],
                threw |-> FALSE]

\* newEncryptionKey is the value of crypto.randomBytes(32).toString('hex')
regenerateEncryptionKey(row, newEncryptionKey) ==
  LET currentSettings == get(row, FALSE)
      settingsWithKey == get(row, TRUE)
      encryptedApiKey ==
        IF currentSettings.anthropic_api_key \notin {NULL, ""}
           /\ settingsWithKey.anthropic_api_key \notin {NULL, ""}
        THEN encrypt(settingsWithKey.anthropic_api_key, newEncryptionKey)
        ELSE NoCipher
  IN IF currentSettings.anthropic_api_key \notin {NULL, ""} /\ settingsWithKey.threw
     THEN [row |-> row, threw |-> TRUE]
     ELSE [row |-> [encryption_key |-> newEncryptionKey,
                    anthropic_api_key |-> encryptedApiKey],
           threw |-> FALSE]

updateAnthropicApiKey(row, apiKey) ==
  LET currentSettings == get(row, FALSE) IN
  [row |-> [row EXCEPT !.anthropic_api_key =
                         encrypt(apiKey, currentSettings.encryption_key)],
   threw |-> FALSE]

update(row, updates) ==
  LET currentSettings == get(row, FALSE)
      oldEncryptionKey == currentSettings.encryption_key
      currentApiKey ==
        IF currentSettings.anthropic_api_key \notin {NULL, ""}
        THEN decrypt(currentSettings.anthropic_api_key, oldEncryptionKey)
        ELSE NULL
      keyed == [row EXCEPT !.encryption_key = updates.encryption_key]
      k == IF updates.encryption_key = NULL THEN [row |-> row, threw |-> FALSE]
           ELSE IF updates.encryption_key = "short" \/ currentApiKey = "Decryption failed"
           THEN [row |-> row, threw |-> TRUE]
           ELSE IF currentApiKey \notin {NULL, ""}
           THEN [row |-> [keyed EXCEPT !.anthropic_api_key =
                            encrypt(currentApiKey, updates.encryption_key)],
                 threw |-> FALSE]
           ELSE [row |-> keyed, threw |-> FALSE]
      currentSettingsForEncryption == get(k.row, FALSE)
      encryptedApiKey == encrypt(updates.anthropic_api_key,
                                 currentSettingsForEncryption.encryption_key)
  IN IF k.threw \/ updates.anthropic_api_key = NULL THEN k
     ELSE IF updates.anthropic_api_key = "" \/ encryptedApiKey \in {NoCipher, EmptyCipher}
     THEN [row |-> k.row, threw |-> TRUE]
     ELSE [row |-> [k.row EXCEPT !.anthropic_api_key = encryptedApiKey],
           threw |-> FALSE]

\* res holds the settings row and the API key set last; arg the last call
UpdateAnthropicApiKey ==
  \E apiKey \in ApiKeys :
    LET r == updateAnthropicApiKey(res.row, apiKey) IN
    Commit([Cur EXCEPT !.arg = [op |-> "updateAnthropicApiKey", threw |-> r.threw],
                       !.res = [row |-> r.row, configured |-> apiKey]])

UpdateEncryptionKey ==
  \E k \in EncryptionKeys \cup {"short"} :
    LET r == updateEncryptionKey(res.row, k) IN
    Commit([Cur EXCEPT !.arg = [op |-> "updateEncryptionKey", threw |-> r.threw],
                       !.res.row = r.row])

RegenerateEncryptionKey ==
  \E k \in EncryptionKeys :
    LET r == regenerateEncryptionKey(res.row, k) IN
    Commit([Cur EXCEPT !.arg = [op |-> "regenerateEncryptionKey", threw |-> r.threw],
                       !.res.row = r.row])

Update ==
  \E k \in EncryptionKeys \cup {"short", NULL}, apiKey \in ApiKeys \cup {"", NULL} :
    LET r == update(res.row, [encryption_key |-> k, anthropic_api_key |-> apiKey]) IN
    Commit([Cur EXCEPT !.arg = [op |-> "update", threw |-> r.threw],
                       !.res = [row |-> r.row,
                                configured |-> IF r.threw \/ apiKey = NULL
                                               THEN res.configured ELSE apiKey]])

\* the database initialisation inserts a row with a random key and no API key
InitSettings ==
  /\ InitJobs
  /\ arg = [op |-> "init", threw |-> FALSE]
  /\ \E k \in EncryptionKeys :
       res = [row |-> [encryption_key |-> k, anthropic_api_key |-> NoCipher],
              configured |-> NULL]

SpecSettings ==
  InitSettings /\ [][UpdateAnthropicApiKey \/ UpdateEncryptionKey
                     \/ RegenerateEncryptionKey \/ Update]_vars

\* ================================================================ chat
\* routes/chat.ts.  res holds chatSessions (user -> subprocess, 0 for no
\* entry), the subprocesses ever spawned (their user and whether they run,
\* were sent SIGTERM, or have closed), the responseResolvers waiting on each
\* subprocess, and the users whose lastActivity is more than SESSION_TIMEOUT_MS
\* old; arg holds the last request or event and the user it belongs to.

\* subprocesses spawned in one behaviour, and requests waiting on one of them
MaxProcs == 3
MaxPending == 1

\* session.process.kill('SIGTERM'); chatSessions.delete(userId)
\* (a handler that clears the whole map instead)
endAllSessions(c, userId) ==
  [c EXCEPT !.proc = [p \in 1..MaxProcs |->
                        IF c.proc[p].state = "running" /\ (\E u \in Users : c.chatSessions[u] = p)
                        THEN [c.proc[p] EXCEPT !.state = "killed"] ELSE c.proc[p]],
            !.chatSessions = [u \in Users |-> 0],
            !.stale = {}]

\* session.process.kill('SIGTERM'); chatSessions.delete(userId)
endSession(c, userId) ==
  LET p == c.chatSessions[userId] IN
  IF p = 0 THEN c
  ELSE [c EXCEPT !.proc[p].state = IF @ = "running" THEN "killed" ELSE @,
                 !.chatSessions[userId] = 0,
                 !.stale = @ \ {userId}]

\* POST /api/chat with a message other than /end: created tells whether
\* createChatSession returned a session or threw
Message(userId, created) ==
  LET c == res
      free == {p \in 1..MaxProcs : c.proc[p].state = "none"}
      p == IF c.chatSessions[userId] # 0 THEN c.chatSessions[userId]
           ELSE CHOOSE q \in free : \A r \in free : q <= r
  IN /\ c.chatSessions[userId] # 0 \/ free # {}
     /\ c.pending[p] < MaxPending
     /\ IF c.chatSessions[userId] = 0 /\ ~created
        THEN Commit([Cur EXCEPT !.arg = [op |-> "refused", user |-> userId]])
        ELSE Commit([Cur EXCEPT
               !.arg = [op |-> IF c.chatSessions[userId] = 0 THEN "created" ELSE "reused",
                        user |-> userId],
               !.res = [c EXCEPT !.proc[p] = IF c.chatSessions[userId] = 0
                                             THEN [user |-> userId, state |-> "running"]
                                             ELSE @,
                                 !.chatSessions[userId] = p,
                                 !.pending[p] = @ + 1,
                                 !.stale = @ \ {userId}]])

\* stdout data completes the response of the first waiting request
Respond(p) ==
  /\ res.proc[p].state = "running" /\ res.pending[p] > 0
  /\ Commit([Cur EXCEPT !.arg = [op |-> "response", user |-> res.proc[p].user],
                        !.res.pending[p] = @ - 1])

\* the 120 s timer of a waiting request fires: the request fails and its
\* handler ends the session its user has now
MessageTimeout(p) ==
  /\ res.proc[p].state \in {"running", "killed"} /\ res.pending[p] > 0
  /\ Commit([Cur EXCEPT
       !.arg = [op |-> "failed", user |-> res.proc[p].user],
       !.res = endSession([res EXCEPT !.pending[p] = @ - 1], res.proc[p].user)])

\* the /end message and POST /api/chat/end
End(userId) ==
  Commit([Cur EXCEPT !.arg = [op |-> "end", user |-> userId],
                     !.res = endSession(res, userId)])

\* 'close' (or 'error') of a subprocess: it deletes the entry of the user it
\* was spawned for and rejects the waiting requests, whose handlers then find
\* no session to clean up
Close(p) ==
  /\ res.proc[p].state \in {"running", "killed"}
  /\ Commit([Cur EXCEPT
       !.arg = [op |-> "close", user |-> res.proc[p].user],
       !.res = [res EXCEPT !.proc[p].state = "closed",
                           !.chatSessions[res.proc[p].user] = 0,
                           !.stale = @ \ {res.proc[p].user},
                           !.pending[p] = 0]])

\* SESSION_TIMEOUT_MS pass since the last message of a user
Idle(userId) ==
  /\ res.chatSessions[userId] # 0 /\ userId \notin res.stale
  /\ res.pending[res.chatSessions[userId]] = 0
  /\ Commit([Cur EXCEPT !.arg = [op |-> "idle", user |-> userId],
                        !.res.stale = @ \cup {userId}])

\* the setInterval callback: every inactive session is ended
RECURSIVE Sweep(_, _)
Sweep(c, users) ==
  IF users = {} THEN c
  ELSE LET u == CHOOSE x \in users : TRUE IN Sweep(endSession(c, u), users \ {u})

Cleanup ==
  /\ res.stale # {}
  /\ Commit([Cur EXCEPT !.arg = [op |-> "cleanup", user |-> 0],
                        !.res = Sweep(res, res.stale)])

InitChat ==
  /\ InitJobs
  /\ arg = [op |-> "init", user |-> 0]
  /\ res = [chatSessions |-> [u \in Users |-> 0],
            proc |-> [p \in 1..MaxProcs |-> [user |-> 0, state |-> "none"]],
            pending |-> [p \in 1..MaxProcs |-> 0],
            stale |-> {}]

SpecChat ==
  InitChat
  /\ [][\/ \E u \in Users, created \in BOOLEAN : Message(u, created)
        \/ \E p \in 1..MaxProcs : Respond(p) \/ MessageTimeout(p) \/ Close(p)
        \/ \E u \in Users : End(u) \/ Idle(u)
        \/ Cleanup]_vars

\* ================================================================ claims

\* the jobs between acquiring ChdirMutex and releasing it
InSection(j) == pc[j] \in {"granted", "running"}

\* C1: at most one job at any instant is between acquiring ChdirMutex and
\* releasing it, whatever the outcomes of the subprocesses and whatever
\* jobs are deleted meanwhile.
C1_MutualExclusion ==
  Cardinality({j \in Jobs : InSection(j)}) <= 1

\* C2: a delete-job by the owner of a job in flight triggers the
\* cancellation signal, removes the RunningJob entry and the workspace
\* (unless that removal throws) and deletes the record; from then on the
\* coroutine never marks the job failed or completed and the record never
\* reappears.
C2_DeleteInFlight ==
  [][\A j \in Jobs :
       /\ (j \in runningJobs /\ j \notin aborted /\ j \in aborted') =>
            /\ j \notin runningJobs'
            /\ wd'[j] = "absent" \/ "work" \in life'[j].rmFailed
            /\ ~rec'[j].present
       /\ j \in aborted =>
            /\ rec'[j].status \notin {"completed", "failed"}
            /\ ~rec[j].present => ~rec'[j].present]_vars

\* the path field of category cat on row r
PathOf(r, cat) ==
  CASE cat = "data_flow" -> r.data_flow_diagram_path
    [] cat = "threat_model" -> r.threat_model_path
    [] cat = "risk_registry" -> r.risk_registry_path

\* the coroutine of job j left the job completed with the path field of
\* every category a harvested file was classified in set
CompletedWithPaths(j) ==
  /\ life[j].final.status = "completed"
  /\ \A f \in life[j].found : PathOf(life[j].final, CategoryOf(f)) # NULL

\* C3: a job whose subprocess exited with a non-zero code and whose
\* harvester found at least one file of a keyword family ends completed,
\* the path field of every matched category non-null.
C3_NonZeroExitWithReports ==
  \A j \in Jobs :
    (pc[j] = "done" /\ life[j].exit = "nonzero" /\ life[j].found # {})
      => CompletedWithPaths(j)

\* C4: a job whose harvester found no file of a keyword family ends failed
\* with the "no reports generated" message, whether the exit code was zero
\* or not, and no job ends completed with nothing harvested.
C4_NoReportsFails ==
  \A j \in Jobs :
    /\ (pc[j] = "done" /\ life[j].harvested /\ life[j].found = {}) =>
         /\ life[j].final.status = "failed"
         /\ life[j].final.error_message =
              "No threat modeling report files were generated"
    /\ life[j].final.status = "completed" => life[j].found # {}

\* C5: a job whose subprocess closed with a null exit status or failed to
\* spawn, and which was not cancelled, ends failed: the harvester is not
\* run and the job is never completed, whatever files the workspace holds.
C5_HardFailure ==
  \A j \in Jobs :
    life[j].exit \in {"signal", "spawnError"} =>
      /\ ~life[j].harvested
      /\ rec[j].status # "completed"
      /\ (pc[j] = "done" /\ j \notin aborted) =>
           life[j].final.status = "failed"

C5_Witness ==
  \E j \in Jobs :
    /\ pc[j] = "done" /\ life[j].exit = "signal" /\ life[j].left
    /\ j \notin aborted /\ life[j].final.status = "failed"
    /\ rec[j] = life[j].final

\* C6: after any sequence of job-store operations, completed_at of a row is
\* non-null if and only if its status is completed or failed.
C6_CompletedAtIff ==
  \A j \in Jobs :
    rec[j].present =>
      (rec[j].completed_at <=> rec[j].status \in {"completed", "failed"})

\* the status values the orchestrator may write after status a
StatusStep(a, b) ==
  \/ a = "pending" /\ b = "processing"
  \/ a = "processing" /\ b \in {"completed", "failed"}
  \/ a \in {"completed", "failed"} /\ b = a

\* C7: the persisted status of a job starts pending and only moves pending
\* -> processing -> completed or failed; once completed or failed it never
\* takes another value.
C7_StatusMoves ==
  \A j \in Jobs :
    rec[j].present =>
      /\ statusLog[j][1] = "pending"
      /\ rec[j].status = statusLog[j][Len(statusLog[j])]
      /\ \A i \in 1..(Len(statusLog[j]) - 1) :
           StatusStep(statusLog[j][i], statusLog[j][i + 1])

C7_Witness ==
  \E j, k \in Jobs :
    /\ statusLog[j] = <<"pending", "processing", "completed">>
    /\ statusLog[k] = <<"pending", "processing", "failed", "failed">>

\* C8: once the coroutine of a job has terminated, its workspace directory,
\* its uploaded archive and its extraction directory no longer exist,
\* unless that very removal threw.
C8_CleanedUp ==
  \A j \in Jobs :
    pc[j] = "done" =>
      /\ wd[j] = "absent" \/ "work" \in life[j].rmFailed
      /\ ~zip[j] \/ "zip" \in life[j].rmFailed
      /\ ~ext[j] \/ "ext" \in life[j].rmFailed

\* C9: a RunningJob entry of a job exists only while its execution
\* coroutine is active (waiting for the mutex, or inside the section), and
\* none remains once the coroutine has terminated.
C9_RunningJobsEntry ==
  \A j \in Jobs :
    /\ j \in runningJobs => pc[j] \in {"queued", "granted", "running"}
    /\ pc[j] = "done" => j \notin runningJobs

C9_Witness ==
  \E j, k \in Jobs :
    /\ pc[j] = "done" /\ life[j].exit = "zero"
    /\ pc[k] = "running" /\ k \in runningJobs

\* C10: of two jobs whose acquire() had to wait, the one that called it
\* first enters the section first.
C10_Fifo ==
  \A a, b \in Jobs :
    (0 < life[a].waited /\ life[a].waited < life[b].waited
       /\ life[b].entered) => life[a].entered

C10_Witness ==
  \E a, b \in Jobs :
    /\ 0 < life[a].waited /\ life[a].waited < life[b].waited
    /\ life[a].entered /\ life[b].entered

\* C11: every job that acquired ChdirMutex releases it on every way out of
\* the section (exit code 0, non-zero exit, killed child, spawn error,
\* failed chdir): a job that was granted the mutex and has terminated has
\* released it at least once, so the mutex is not left held by a job whose
\* subprocess finished or never started.
C11_AlwaysReleased ==
  \A j \in Jobs :
    (pc[j] = "done" /\ life[j].entered) => life[j].releases >= 1

\* C12: after the cancellation signal of a job whose subprocess is running,
\* SIGTERM is sent to the subprocess and, when the subprocess has not exited
\* once the 5-second grace period is over, SIGKILL is sent: a subprocess
\* still running after the timeout of its 'abort' listener fired has been
\* sent both signals.
C12_TermThenKill ==
  \A j \in Jobs :
    (pc[j] = "running" /\ child[j].timer = "fired")
       => (child[j].term /\ child[j].kill9)

\* C13: once a job is completed, the report files copied to its directory
\* reportsBaseDir/<jobId>/ stay there until delete-job is executed for that
\* job: while the completed record exists and the job was not cancelled,
\* the directory exists and holds every report file the harvester found,
\* whatever other jobs execute, clean up or have cancelled.
C13_ReportsRemain ==
  \A j \in Jobs :
    (rec[j].present /\ rec[j].status = "completed" /\ j \notin aborted)
       => (rd[j].ex /\ life[j].found \subseteq rd[j].files)

C15_StaysInside ==
  /\ \A p \in res.written : Inside(p, extractTo)
  /\ res.state = "resolved" =>
       \A i \in 1..Len(arg) :
         LET p == normalize(extractTo \o arg[i]) IN
         (arg[i] \in FileEntries /\ Inside(p, extractTo)) => p \in res.written

\* C16: for every repository-name candidate, the sanitized name of the
\* workspace subdirectory contains only characters of [A-Za-z0-9._-] and is
\* not empty ('repo' is used when nothing remains).
C16_SanitizedName ==
  res.state # "start" =>
    /\ res.repoName # << >>
    /\ \A i \in 1..Len(res.repoName) : res.repoName[i] \in ValidChars

C16_Witness ==
  /\ res.state = "named"
  /\ \E i \in 1..Len(res.raw) : res.raw[i] \notin ValidChars

\* C17 (as claimed): the name of the repository subdirectory of an uploaded
\* archive is, in this order of priority, the archive's original file name
\* without its extension, else the name field of the package manifest, else
\* the name of the extraction directory, else the fallback token.
C17_FileNameFirst ==
  (res.state # "start" /\ arg.upload /\ arg.exists) =>
    res.repoName =
      sanitize(IF ~Falsy(stripZip(arg.zipFileName)) THEN stripZip(arg.zipFileName)
               ELSE IF ~Falsy(arg.packageName) THEN arg.packageName
               ELSE IF ~Falsy(extractedBase) THEN extractedBase
               ELSE repo)

\* C17 (amended): when the extraction directory of an uploaded archive holds
\* exactly one entry and it is a directory, the name of the repository
\* subdirectory is the sanitized name of that directory; otherwise it is the
\* sanitized first of: the archive's original file name without a trailing
\* ".zip", the name field of the package manifest, the name of the
\* extraction directory.  Without an uploaded archive it is 'repo'.
C17_SingleRootFirst ==
  res.state # "start" =>
    res.repoName =
      IF ~arg.upload THEN repo
      ELSE IF arg.exists /\ SingleRoot(arg.tree)
      THEN sanitize(CHOOSE n \in Contents(arg.tree) : TRUE)
      ELSE IF ~Falsy(stripZip(arg.zipFileName))
      THEN sanitize(stripZip(arg.zipFileName))
      ELSE IF arg.exists /\ ~Falsy(arg.packageName) THEN sanitize(arg.packageName)
      ELSE IF arg.exists THEN sanitize(extractedBase)
      ELSE repo

C17_Witness ==
  /\ res.state = "named" /\ arg.upload /\ arg.exists
  /\ SingleRoot(arg.tree)
  /\ ~Falsy(stripZip(arg.zipFileName))
  /\ res.repoName # sanitize(stripZip(arg.zipFileName))

\* C18 (as claimed): when the extracted archive consists of exactly one
\* top-level directory, the contents of that directory are copied to
\* workDir/<name of that directory>/ with every file present: the paths
\* below workDir are the paths of the extracted tree.
C18_InnerRootByName ==
  (res.state \in {"copied", "failed"} /\ arg.upload /\ arg.exists
     /\ SingleRoot(arg.tree))
    => (res.state = "copied" /\ res.work = arg.tree)

\* C18 (amended): when the extracted archive consists of exactly one
\* top-level directory, the contents of that directory (not of the
\* extraction root) are copied to workDir/<sanitized name of that
\* directory>/ with every file present; the job goes on unless the copy
\* has src, package.json and routes (or uploads, threat-modeling-reports)
\* at its top.
C18_InnerRootSanitized ==
  (res.state \in {"copied", "failed"} /\ arg.upload /\ arg.exists
     /\ SingleRoot(arg.tree))
    => LET d == CHOOSE n \in Contents(arg.tree) : TRUE IN
       /\ res.work = {<<sanitize(d)>> \o Tail(p) : p \in arg.tree}
       /\ res.state = "copied" <=>
            ~({src, packageJson, routes} \subseteq {p[2] : p \in arg.tree})

C18_Witness ==
  /\ res.state = "copied" /\ arg.upload /\ arg.exists /\ SingleRoot(arg.tree)
  /\ Cardinality(arg.tree) = 2 /\ Cardinality(res.work) = 2
  /\ \A p \in res.work : p[1] # (CHOOSE n \in Contents(arg.tree) : TRUE)

\* C19: delete-job on an id whose record does not exist (it was deleted)
\* answers NotFound and changes nothing: no cancellation, no removal of
\* files, no change of a record; the state being the same, a repeated
\* delete has the same outcome.
C19_DeleteNotFound ==
  \A j \in Jobs :
    NotFound(Cur, j) =>
      \A u \in Users, fails \in {{}, Removals \cup {"reports"}} :
        LET r == DeleteJob(Cur, j, u, fails) IN r.code = 404 /\ r.st = Cur

C19_Witness ==
  \E j \in Jobs :
    /\ pc[j] \in {"running", "done"} /\ NotFound(Cur, j)
    /\ j \in aborted /\ rd[j].ex

\* C20: a start-job request that carries neither an archive nor a
\* repository path, or whose archive cannot be extracted or extracts to
\* nothing, is refused by the handler itself: no job record is created and
\* no RunningJob (no execution coroutine) exists for it.
C20_RefusedLeavesNothing ==
  \A j \in Jobs :
    pc[j] = "rejected" =>
      /\ ~rec[j].present /\ statusLog[j] = << >>
      /\ j \notin runningJobs /\ j \notin aborted
      /\ life[j].waited = 0 /\ ~life[j].entered /\ life[j].final = NoRec

C20_Witness ==
  \E j, k \in Jobs :
    /\ pc[j] = "rejected" /\ ~life[j].upl
    /\ pc[k] = "rejected" /\ life[k].upl

\* C21: when the credentials cannot be resolved as a job starts, the job
\* ends failed with the configuration error message, and it never acquires
\* ChdirMutex (it neither waits for it nor enters the section) and never
\* spawns a subprocess.
C21_NoConfigFails ==
  \A j \in Jobs :
    life[j].pre = "noConfig" =>
      /\ pc[j] = "done"
      /\ life[j].final.status = "failed"
      /\ life[j].final.error_message = "Anthropic API configuration not found"
      /\ life[j].waited = 0 /\ ~life[j].entered /\ life[j].releases = 0
      /\ life[j].exit = "none"

C21_Witness ==
  \E j \in Jobs :
    /\ life[j].pre = "noConfig" /\ rec[j].present
    /\ rec[j].status = "failed"
    /\ \E k \in Jobs : pc[k] = "running"

\* C22: every job the orchestrator marks failed has a non-null error
\* message on its record, and the message stays on the record, unchanged,
\* for as long as the record exists.
C22_FailedKeepsMessage ==
  [][\A j \in Jobs :
       (rec'[j].present /\ rec'[j].status = "failed") =>
         /\ rec'[j].error_message # NULL
         /\ (rec[j].present /\ rec[j].status = "failed")
              => rec'[j].error_message = rec[j].error_message]_vars

C22_Witness ==
  \E j \in Jobs :
    /\ rec[j].present /\ rec[j].status = "failed"
    /\ rec[j].error_message = "No threat modeling report files were generated"
    /\ \E k \in Jobs : k # j /\ pc[k] = "done" /\ ~rec[k].present

\* C23: when several harvested files fall in the same report category, the
\* path persisted for the category is that of the last one scanned, the
\* directories being scanned in the order workspace root, repository
\* subdirectory, hidden subdirectories of the workspace, hidden
\* subdirectories of the repository: it is the last file of the category in
\* the last directory that holds one.
C23_LastMatchWins ==
  res.state = "harvested" =>
    \A cat \in {"data_flow", "threat_model", "risk_registry"} :
      LET holds == {d \in 1..4 : \E i \in 1..Len(arg[d]) : CategoryOf(arg[d][i]) = cat}
      IN IF holds = {} THEN res[cat] = NULL
         ELSE LET d == CHOOSE x \in holds : \A y \in holds : y <= x
                  at == {i \in 1..Len(arg[d]) : CategoryOf(arg[d][i]) = cat}
              IN res[cat] = arg[d][CHOOSE i \in at : \A k \in at : k <= i]

C23_Witness ==
  /\ res.state = "harvested"
  /\ Len(arg[1]) > 0 /\ CategoryOf(arg[1][1]) = "data_flow"
  /\ Len(arg[4]) > 0 /\ CategoryOf(arg[4][1]) = "data_flow"
  /\ arg[1][1] # arg[4][1]
  /\ res.data_flow = arg[4][1]

\* C24: after the source is copied into the workspace, a copied tree that
\* looks like the host application (src, package.json and one of
\* threat-modeling-reports, uploads, routes at its top) makes the job fail
\* validation, so that it never goes on to spawn the agent, whether the
\* source was an uploaded archive or a repository path.
C24_HostTreeRejected ==
  (res.state \in {"copied", "failed"} /\ arg.exists) =>
    LET top == {p[2] : p \in res.work} IN
    hasBackendFiles(top) => res.state = "failed"

\* C25: a delete-job request from a user who does not own the job is
\* answered 403 'Access denied' and has no effect: a running execution is
\* not cancelled, and the RunningJob entry, the workspace, the report
\* directory and the record are as before.
C25_ForeignDeleteDenied ==
  \A j \in Jobs :
    rec[j].present =>
      \A u \in Users \ {rec[j].user_id}, fails \in {{}, Removals \cup {"reports"}} :
        LET r == DeleteJob(Cur, j, u, fails) IN r.code = 403 /\ r.st = Cur

C25_Witness ==
  \E j \in Jobs :
    /\ pc[j] = "running" /\ rec[j].present /\ j \in runningJobs
    /\ Users \ {rec[j].user_id} # {}

\* C26: after any sequence of settings operations a configured API key is
\* still stored, and it decrypts under the stored encryption key to the
\* plaintext that was set last.
C26_KeyStaysReadable ==
  res.configured # NULL =>
    /\ res.row.anthropic_api_key \notin {NoCipher, EmptyCipher}
    /\ decrypt(res.row.anthropic_api_key, res.row.encryption_key) = res.configured

\* C27: chat sessions of different users are independent: a session is
\* removed from chatSessions, or its subprocess terminated, only by a request
\* or an event of the user it belongs to or by that user's own inactivity, so
\* that the other users keep theirs.
C27_SessionsIndependent ==
  [][\A v \in Users :
       LET p == res.chatSessions[v] IN
       (p # 0 /\ (res'.chatSessions[v] # p \/ res'.proc[p].state # res.proc[p].state))
         => (arg'.user = v \/ (arg'.op = "cleanup" /\ v \in res.stale))]_vars

C27_Witness ==
  \E u \in Users, v \in Users :
    /\ u # v /\ arg.op \in {"end", "failed", "close"} /\ arg.user = u
    /\ res.chatSessions[u] = 0
    /\ res.chatSessions[v] # 0 /\ res.proc[res.chatSessions[v]].state = "running"

\* C28: a user has at most one chat session at a time: the subprocess the
\* first message spawned serves the later messages, and no second
\* subprocess is spawned for the user while it runs.
C28_OneSessionPerUser ==
  \A u \in Users :
    Cardinality({p \in 1..MaxProcs :
                   res.proc[p].user = u /\ res.proc[p].state = "running"}) <= 1

\* C29: cancellation is honoured before the spawn: a job whose cancellation
\* signal was triggered before its subprocess is spawned, while it waits in
\* the queue of ChdirMutex included, never spawns the subprocess.
C29_CancelledNeverSpawns ==
  [][\A j \in Jobs :
       (pc[j] # "running" /\ pc'[j] = "running") => j \notin aborted]_vars

\* C30: the registry runningJobs is changed only by the coroutine of the job
\* concerned: an entry appears or disappears only in a step in which that
\* job's coroutine moves; a delete request reads the registry and leaves it
\* as it is.
C30_OnlyOwnCoroutine ==
  [][\A j \in Jobs :
       ((j \in runningJobs) # (j \in runningJobs')) => pc'[j] # pc[j]]_vars

\* C31: a failure while removing the workspace, the uploaded archive or the
\* extraction directory in the finally block is swallowed: the block runs to
\* its end, each of the other removals is still made, and the record of the
\* job (status and error message included) is what it was before the block.
C31_CleanupSwallowed ==
  \A j \in Jobs :
    pc[j] = "running" =>
      \A fails \in SUBSET Removals :
        LET f == Finally(Cur, j, fails) IN
        /\ f.pc[j] = "done"
        /\ f.rec = rec
        /\ f.life[j].rmFailed \subseteq life[j].rmFailed \cup fails
        /\ "work" \notin f.life[j].rmFailed => ~DirExists(f, j)
        /\ "zip" \notin f.life[j].rmFailed => ~ZipVisible(f, j)
        /\ "ext" \notin f.life[j].rmFailed => ~f.ext[j]

C31_Witness ==
  \E j \in Jobs :
    /\ pc[j] = "done" /\ life[j].upl
    /\ "work" \in life[j].rmFailed /\ ~zip[j] /\ ~ext[j]
    /\ rec[j].present /\ rec[j].status = "completed"

\* C32: the release callback returned by ChdirMutex.acquire() is invoked
\* exactly once per acquisition on every path: no job releases twice.
C32_ReleasedOnce ==
  \A j \in Jobs : life[j].releases <= 1

\* C33: every path a job derives from the process working directory is
\* rooted at the directory the server started in: no job computes its
\* workspace and report directory under the workspace of another job.
C33_RootedAtOrigin ==
  \A j \in Jobs : base[j] = Orig

\* C34: whenever no job holds ChdirMutex, the working directory of the
\* process is the directory the server started in.
C34_CwdRestored ==
  (~locked /\ \A j \in Jobs : ~InSection(j)) => cwd = Orig

\* C35: for every archive file name, manifest name and top-level directory
\* name, the repository directory workDir/<repoName> is a strict descendant
\* of the workspace workDir of the job: it is neither the workspace itself
\* nor a directory outside it.
C35_RepoDirInsideWorkspace ==
  res.state # "start" =>
    LET workDir == << <<"w">>, <<"j", "1">> >> IN
    Inside(join(workDir, <<res.repoName>>), workDir)

C37_EventuallySettled ==
  \A j \in Jobs :
    (rec[j].present /\ rec[j].status \in {"pending", "processing"})
      ~> (~rec[j].present \/ rec[j].status \in {"completed", "failed"})

\* C38: the close or error handler of a chat subprocess removes only its
\* own session from chatSessions, so that every live chat subprocess is the
\* one registered for its user.
C38_LiveSessionTracked ==
  \A p \in 1..MaxProcs :
    res.proc[p].state = "running" => res.chatSessions[res.proc[p].user] = p

\* C39: the periodic cleanup of orphaned uploads never removes the uploaded
\* archive or the extraction directory of a request whose archive is still
\* being extracted.
C39_ExtractionUndisturbed ==
  \A j \in Jobs : pc[j] = "extracting" => (zip[j] /\ ext[j])
====
